---- MODULE Spec2Model ----
(***************************************************************************)
(* A model of the ring zipper of src/src/lib.rs: two deques, forward and   *)
(* backward, split around the focus, with the public operations as         *)
(* actions.  A panic (unwrap on an empty deque, remainder by zero) is the  *)
(* flag aborted; nothing runs after it.                                    *)
(***************************************************************************)
EXTENDS Integers, Sequences, FiniteSets, TLC

VARIABLES forward, backward, aborted,   \* the Zipper and whether the program panicked
          orig,                         \* the sequence handed to from_iter (<<>> for new), forgotten
                                        \* (<<>>) once an element is inserted or removed
          op, arg, pre, ret, count,     \* the last call: name, argument, zipper before, result, steps taken
          op2, arg2, pre2,              \* the call before it, kept for the call pairs of PairedOps
          k                             \* number of step_forwards calls (SpecFwd)

vars == <<forward, backward, aborted, orig, op, arg, pre, ret, count, op2, arg2, pre2, k>>

----------------------------------------------------------------------------
\* Bounds

MaxLen == 3
NumElems == 3
MaxSteps == 7
MaxIdx == 4

Elems == 0 .. (NumElems - 1)
Preds == SUBSET Elems
Idx == (-MaxIdx) .. MaxIdx
SeqsUpTo(n) == UNION {[1 .. m -> Elems] : m \in 0 .. n}

----------------------------------------------------------------------------
\* Option<T>

None == <<>>
Some(t) == <<t>>

\* SequenceDirection
Original == "Original"
Reverse == "Reverse"

----------------------------------------------------------------------------
\* VecDeque helpers: index 1 of a sequence is the front of the deque

push_and_yield(n, t) == <<t>> \o n

push_back_and_yield(n, t) == Append(n, t)

\* a reset that moves pl onto nl without reversing it
reset_keeping_order(nl, pl) == [nl |-> pl \o nl, pl |-> <<>>]

\* reset(nl, pl): drain pl front to back, pushing each element on the front of nl
RECURSIVE reset(_, _)
reset(nl, pl) ==
    IF pl = <<>> THEN [nl |-> nl, pl |-> pl]
    ELSE reset(push_and_yield(nl, Head(pl)), Tail(pl))

\* pop_push(pop, push): unwrap of pop_front panics on an empty deque
pop_push(pop, push) ==
    IF pop = <<>> THEN [pop |-> pop, push |-> push, aborted |-> TRUE]
    ELSE [pop |-> Tail(pop), push |-> <<Head(pop)>> \o push, aborted |-> FALSE]

----------------------------------------------------------------------------
\* Zipper<T>

Zipper(f, b) == [forward |-> f, backward |-> b, aborted |-> FALSE]

new == Zipper(<<>>, <<>>)

RECURSIVE from_iter_fold(_, _)
from_iter_fold(fw, s) ==
    IF s = <<>> THEN fw ELSE from_iter_fold(push_back_and_yield(fw, Head(s)), Tail(s))

from_iter(s) == [new EXCEPT !.forward = from_iter_fold(new.forward, s)]

size(z) == Len(z.forward) + Len(z.backward)

focus(z) == IF z.forward = <<>> THEN None ELSE Some(Head(z.forward))

reset_start(z) ==
    IF z.aborted THEN z
    ELSE LET r == reset(z.forward, z.backward)
         IN  [z EXCEPT !.forward = r.nl, !.backward = r.pl]

\* an unsafe_reset_end that replaces backward instead of pushing onto it
unsafe_reset_end_replacing(z) ==
    IF z.aborted THEN z
    ELSE [z EXCEPT !.backward = reset(<<>>, z.forward).nl, !.forward = <<>>]

unsafe_reset_end(z) ==
    IF z.aborted THEN z
    ELSE LET r == reset(z.backward, z.forward)
         IN  [z EXCEPT !.backward = r.nl, !.forward = r.pl]

advance_focus(z, dir) ==
    IF z.aborted THEN z
    ELSE IF dir = Original
         THEN LET r == pop_push(z.forward, z.backward)
              IN  [forward |-> r.pop, backward |-> r.push, aborted |-> r.aborted]
         ELSE LET r == pop_push(z.backward, z.forward)
              IN  [forward |-> r.push, backward |-> r.pop, aborted |-> r.aborted]

\* a rotate_stacks that wraps in Reverse direction only
rotate_stacks_reverse_only(z, dir) ==
    IF z.aborted THEN z
    ELSE IF dir = Reverse /\ z.backward = <<>> THEN unsafe_reset_end(z)
    ELSE z

rotate_stacks(z, dir) ==
    IF z.aborted THEN z
    ELSE IF dir = Original /\ z.forward = <<>> THEN reset_start(z)
    ELSE IF dir = Reverse /\ z.backward = <<>> THEN unsafe_reset_end(z)
    ELSE z

\* a step that rotates after advancing in both directions
step_rotating_after(z, dir) ==
    IF z.aborted THEN z
    ELSE IF size(z) = 0 THEN z
    ELSE rotate_stacks(advance_focus(z, dir), dir)

step(z, dir) ==
    IF z.aborted THEN z
    ELSE IF size(z) = 0 THEN z
    ELSE IF dir = Original THEN rotate_stacks(advance_focus(z, dir), dir)
    ELSE advance_focus(rotate_stacks(z, dir), dir)

step_forwards(z) == step(z, Original)

step_backwards(z) == step(z, Reverse)

\* a reset_end that leaves out the step in Reverse direction
reset_end_without_step(z) == unsafe_reset_end(z)

reset_end(z) == step(unsafe_reset_end(z), Reverse)

\* a refocus that tests the current focus before it steps
RECURSIVE refocus_testing_first(_, _, _)
refocus_testing_first(z, p, counter) ==
    IF z.aborted \/ focus(z) = None \/ Head(z.forward) \in p \/ counter > size(z)
    THEN [z |-> z, steps |-> counter]
    ELSE refocus_testing_first(step_forwards(z), p, counter + 1)

\* a refocus whose counter stops the search one step earlier
RECURSIVE refocus_stopping_early(_, _, _)
refocus_stopping_early(z, p, counter) ==
    LET z1 == step_forwards(z) IN
    IF z1.aborted THEN [z |-> z1, steps |-> counter]
    ELSE IF focus(z1) # None /\ ~(Head(z1.forward) \in p) /\ counter + 1 < size(z1)
         THEN refocus_stopping_early(z1, p, counter + 1)
         ELSE [z |-> z1, steps |-> counter + 1]

\* refocus: step forwards, then test focus, predicate and counter, in that order
RECURSIVE refocus_loop(_, _, _)
refocus_loop(z, p, counter) ==
    LET z1 == step_forwards(z) IN
    IF z1.aborted THEN [z |-> z1, steps |-> counter]
    ELSE IF focus(z1) # None /\ ~(Head(z1.forward) \in p) /\ counter < size(z1)
         THEN refocus_loop(z1, p, counter + 1)
         ELSE [z |-> z1, steps |-> counter + 1]

refocus(z, p) == refocus_loop(z, p, 0)

RECURSIVE refocus_backwards_loop(_, _, _)
refocus_backwards_loop(z, p, counter) ==
    LET z1 == step_backwards(z) IN
    IF z1.aborted THEN [z |-> z1, steps |-> counter]
    ELSE IF focus(z1) # None /\ ~(Head(z1.forward) \in p) /\ counter < size(z1)
         THEN refocus_backwards_loop(z1, p, counter + 1)
         ELSE [z |-> z1, steps |-> counter + 1]

refocus_backwards(z, p) == refocus_backwards_loop(z, p, 0)

\* a take_current_focus that does not re-wrap
take_current_focus_no_wrap(z) ==
    [z |-> [z EXCEPT !.forward = IF z.forward = <<>> THEN <<>> ELSE Tail(z.forward)],
     ret |-> focus(z)]

take_current_focus(z) ==
    LET next == focus(z)
        fw == IF z.forward = <<>> THEN <<>> ELSE Tail(z.forward)
        r == reset(fw, z.backward)
    IN  IF fw = <<>>
        THEN [z |-> [z EXCEPT !.forward = r.nl, !.backward = r.pl], ret |-> next]
        ELSE [z |-> [z EXCEPT !.forward = fw], ret |-> next]

take_previous_focus(z) ==
    LET r == IF z.backward = <<>> THEN reset(z.backward, z.forward)
             ELSE [nl |-> z.backward, pl |-> z.forward]
        q == pop_push(r.nl, r.pl)
    IN  IF q.aborted
        THEN [z |-> [forward |-> r.pl, backward |-> r.nl, aborted |-> TRUE], ret |-> None]
        ELSE [z |-> [forward |-> Tail(q.push), backward |-> q.pop, aborted |-> FALSE],
              ret |-> Some(Head(q.push))]

\* a push_focus that pushes on the back of forward
push_focus_back(z, elem) == [z EXCEPT !.forward = Append(z.forward, elem)]

push_focus(z, elem) == [z EXCEPT !.forward = <<elem>> \o z.forward]

\* a remainder of the absolute value
rem_of_abs(a, b) == (IF a < 0 THEN -a ELSE a) % b

\* isize::rem_euclid: panics on a zero divisor; for b > 0 the result is in 0 .. b-1
rem_euclid(a, b) == a % b

\* an ith that indexes backward from its front
ith_from_front(z, i) ==
    LET cnt == size(z) IN
    IF cnt = 0 THEN [val |-> None, aborted |-> TRUE]
    ELSE LET j == rem_euclid(IF i < 0 THEN i + cnt ELSE i, cnt)
             fw_len == Len(z.forward)
         IN  IF j < fw_len
             THEN [val |-> Some(z.forward[j + 1]), aborted |-> FALSE]
             ELSE [val |-> Some(z.backward[(j - fw_len) + 1]), aborted |-> FALSE]

ith(z, i) ==
    LET cnt == size(z) IN
    IF cnt = 0 THEN [val |-> None, aborted |-> TRUE]
    ELSE LET j == rem_euclid(IF i < 0 THEN i + cnt ELSE i, cnt)
             fw_len == Len(z.forward)
             bw_len == Len(z.backward)
         IN  IF j < fw_len
             THEN [val |-> Some(z.forward[j + 1]), aborted |-> FALSE]
             ELSE [val |-> Some(z.backward[(bw_len - (j - fw_len + 1)) + 1]), aborted |-> FALSE]

----------------------------------------------------------------------------
\* ZipperIter: a cursor over ith

iter(z) == [count |-> size(z), cursor |-> 0, dir |-> Original]

reverse_iter(z) == [count |-> size(z), cursor |-> 0, dir |-> Reverse]

\* a next whose lower bound lets the cursor reach -count
ZipperIter_next_one_more(z, it) ==
    IF it.cursor < (-1) * it.count \/ it.cursor >= it.count
    THEN [it |-> it, item |-> None, aborted |-> FALSE]
    ELSE LET i == it.cursor
             r == ith(z, i)
         IN  [it |-> [it EXCEPT !.cursor = it.cursor + (IF it.dir = Original THEN 1 ELSE -1)],
              item |-> r.val, aborted |-> r.aborted]

ZipperIter_next(z, it) ==
    IF it.cursor <= (-1) * it.count \/ it.cursor >= it.count
    THEN [it |-> it, item |-> None, aborted |-> FALSE]
    ELSE LET i == it.cursor
             r == ith(z, i)
         IN  [it |-> [it EXCEPT !.cursor = it.cursor + (IF it.dir = Original THEN 1 ELSE -1)],
              item |-> r.val, aborted |-> r.aborted]

\* Iterator::collect: call next until it yields None
RECURSIVE collect(_, _)
collect(z, it) ==
    LET r == ZipperIter_next(z, it) IN
    IF r.aborted \/ r.item = None THEN <<>>
    ELSE r.item \o collect(z, r.it)

\* ZipperIntoIter: next is take_current_focus on the owned zipper
into_iter(z) == [zipper |-> z]

ZipperIntoIter_next(it) ==
    LET r == take_current_focus(it.zipper) IN [it |-> [zipper |-> r.z], item |-> r.ret]

RECURSIVE collect_into(_)
collect_into(it) ==
    LET r == ZipperIntoIter_next(it) IN
    IF r.item = None THEN [items |-> <<>>, it |-> r.it]
    ELSE LET rest == collect_into(r.it)
         IN  [items |-> r.item \o rest.items, it |-> rest.it]

----------------------------------------------------------------------------
\* The program: one zipper, the public operations called in any order

Self == [forward |-> forward, backward |-> backward, aborted |-> aborted]

Put(z) ==
    /\ forward' = z.forward
    /\ backward' = z.backward
    /\ aborted' = z.aborted

\* call pairs whose first call is remembered in op2, pre2
PairedOps == {<<"step_forwards", "step_backwards">>, <<"step_backwards", "step_forwards">>,
              <<"push_focus", "take_current_focus">>,
              <<"reset_end", "step_forwards">>, <<"reset_end", "step_backwards">>,
              <<"reset_end", "reset_end">>, <<"reset_start", "reset_start">>}

Log(o, a, r, c) ==
    /\ op' = o
    /\ arg' = a
    /\ pre' = Self
    /\ ret' = r
    /\ count' = c
    /\ op2' = IF <<op, o>> \in PairedOps THEN op ELSE "none"
    /\ arg2' = IF <<op, o>> \in PairedOps THEN arg ELSE {}
    /\ pre2' = IF <<op, o>> \in PairedOps THEN pre ELSE new

Init ==
    /\ \E s \in SeqsUpTo(MaxLen) :
          /\ forward = from_iter(s).forward
          /\ backward = from_iter(s).backward
          /\ aborted = from_iter(s).aborted
          /\ orig = s
    /\ op = "init" /\ arg = {} /\ pre = new /\ ret = None /\ count = 0
    /\ op2 = "none" /\ arg2 = {} /\ pre2 = new
    /\ k = 0

StepForwards ==
    /\ ~aborted
    /\ Put(step_forwards(Self))
    /\ Log("step_forwards", {}, None, 0)
    /\ UNCHANGED <<orig, k>>

StepBackwards ==
    /\ ~aborted
    /\ Put(step_backwards(Self))
    /\ Log("step_backwards", {}, None, 0)
    /\ UNCHANGED <<orig, k>>

ResetStart ==
    /\ ~aborted
    /\ Put(reset_start(Self))
    /\ Log("reset_start", {}, None, 0)
    /\ UNCHANGED <<orig, k>>

ResetEnd ==
    /\ ~aborted
    /\ Put(reset_end(Self))
    /\ Log("reset_end", {}, None, 0)
    /\ UNCHANGED <<orig, k>>

Refocus ==
    /\ ~aborted
    /\ \E p \in Preds :
          LET r == refocus(Self, p)
          IN  Put(r.z) /\ Log("refocus", p, None, r.steps)
    /\ UNCHANGED <<orig, k>>

RefocusBackwards ==
    /\ ~aborted
    /\ \E p \in Preds :
          LET r == refocus_backwards(Self, p)
          IN  Put(r.z) /\ Log("refocus_backwards", p, None, r.steps)
    /\ UNCHANGED <<orig, k>>

PushFocus ==
    /\ ~aborted
    /\ size(Self) < MaxLen
    /\ \E e \in Elems : Put(push_focus(Self, e)) /\ Log("push_focus", {e}, None, 0)
    /\ orig' = <<>> /\ UNCHANGED k

TakeCurrentFocus ==
    /\ ~aborted
    /\ LET r == take_current_focus(Self)
       IN  Put(r.z) /\ Log("take_current_focus", {}, r.ret, 0)
    /\ orig' = <<>> /\ UNCHANGED k

TakePreviousFocus ==
    /\ ~aborted
    /\ LET r == take_previous_focus(Self)
       IN  Put(r.z) /\ Log("take_previous_focus", {}, r.ret, 0)
    /\ orig' = <<>> /\ UNCHANGED k

Iter ==
    /\ ~aborted
    /\ Log("iter", {}, collect(Self, iter(Self)), 0)
    /\ UNCHANGED <<forward, backward, aborted, orig, k>>

IntoIter ==
    /\ ~aborted
    /\ LET r == collect_into(into_iter(Self))
       IN  Put(r.it.zipper) /\ Log("into_iter", {}, r.items, 0)
    /\ orig' = <<>> /\ UNCHANGED k

ReverseIter ==
    /\ ~aborted
    /\ Log("reverse_iter", {}, collect(Self, reverse_iter(Self)), 0)
    /\ UNCHANGED <<forward, backward, aborted, orig, k>>

Focus ==
    /\ ~aborted
    /\ Log("focus", {}, focus(Self), 0)
    /\ UNCHANGED <<forward, backward, aborted, orig, k>>

Ith ==
    /\ ~aborted
    /\ \E i \in Idx :
          LET r == ith(Self, i)
          IN  aborted' = r.aborted /\ Log("ith", {i}, r.val, 0)
    /\ UNCHANGED <<forward, backward, orig, k>>

Next ==
    \/ StepForwards \/ StepBackwards
    \/ ResetStart \/ ResetEnd
    \/ Refocus \/ RefocusBackwards
    \/ PushFocus \/ TakeCurrentFocus \/ TakePreviousFocus
    \/ Iter \/ ReverseIter \/ IntoIter
    \/ Focus \/ Ith

Spec == Init /\ [][Next]_vars

\* from_iter(S) followed by movement operations only
NextMove ==
    \/ StepForwards \/ StepBackwards
    \/ ResetStart \/ ResetEnd
    \/ Refocus \/ RefocusBackwards

SpecMove == Init /\ [][NextMove]_vars

\* from_iter(S), then k calls of step_forwards, then iter()
StepForwardsCounted ==
    /\ k < MaxSteps
    /\ ~aborted
    /\ Put(step_forwards(Self))
    /\ Log("step_forwards", {}, None, 0)
    /\ k' = k + 1
    /\ UNCHANGED orig

NextFwd == StepForwardsCounted \/ Iter

SpecFwd == Init /\ [][NextFwd]_vars

----------------------------------------------------------------------------
\* Vocabulary of the properties

RECURSIVE Rev(_)
Rev(s) == IF s = <<>> THEN <<>> ELSE Append(Rev(Tail(s)), Head(s))

\* the rotation of s that starts at 0-based index r
Rotate(s, r) == SubSeq(s, r + 1, Len(s)) \o SubSeq(s, 1, r)

Distinct(s) == \A i, j \in 1 .. Len(s) : s[i] = s[j] => i = j

\* the elements in ring order, read from forward.front()
Ring(z) == z.forward \o Rev(z.backward)

\* the element d steps after the head of Ring(z) in Original direction
After(z, d) == Ring(z)[(d % size(z)) + 1]

\* the positions of the ring whose element satisfies p
Matching(z, p) == {i \in 1 .. size(z) : Ring(z)[i] \in p}

\* the number of forward steps from the focus to the first element satisfying
\* p, the focus itself coming last
FirstForward(z, p) ==
    CHOOSE d \in 1 .. size(z) :
        /\ After(z, d) \in p
        /\ \A e \in 1 .. (d - 1) : After(z, e) \notin p

\* n calls of step
RECURSIVE StepN(_, _, _)
StepN(z, dir, n) == IF n = 0 THEN z ELSE StepN(step(z, dir), dir, n - 1)

\* the zipper over s split at 0-based position j
Canonical(s, j) == Zipper(SubSeq(s, j + 1, Len(s)), Rev(SubSeq(s, 1, j)))

MoveOps == {"step_forwards", "step_backwards", "reset_start", "reset_end",
            "refocus", "refocus_backwards"}

----------------------------------------------------------------------------
\* C1: focus invariant: in every state reachable by the public operations, a
\* zipper of size > 0 has a non-empty forward, so focus() returns an element.
\* Violated: take_previous_focus with an empty backward leaves forward empty.
C1_FocusInvariant == size(Self) > 0 => focus(Self) # None

\* C2: ring order: after from_iter(S) and any movement operations,
\* reverse(backward) ++ forward = S, forward ++ reverse(backward) is the
\* rotation of S that starts at the focus, and size() = |S|.
C2_RingOrder ==
    /\ ~aborted
    /\ Rev(backward) \o forward = orig
    /\ forward \o Rev(backward) = Rotate(orig, Len(backward))
    /\ size(Self) = Len(orig)
    /\ orig # <<>> => focus(Self) = Some(orig[Len(backward) + 1])

C2_Witness ==
    /\ op \in MoveOps
    /\ Len(orig) >= 3 /\ Distinct(orig)
    /\ Len(backward) >= 2
    /\ pre.backward = <<>>

\* C3: from_iter(S) for non-empty S, k calls of step_forwards, then iter()
\* yields |S| elements, the rotation of S starting at index k mod |S|.
C3_IterAfterSteps ==
    (op = "iter" /\ orig # <<>>) =>
        /\ Len(ret) = Len(orig)
        /\ ret = Rotate(orig, k % Len(orig))
        /\ \A i \in 1 .. Len(orig) : ret[i] = orig[((k + i - 1) % Len(orig)) + 1]

C3_Witness ==
    /\ op = "iter"
    /\ Len(orig) >= 3 /\ Distinct(orig)
    /\ k > Len(orig)
    /\ k % Len(orig) = 2

\* C4: step round trip: on a zipper with a focus, step_forwards then
\* step_backwards, and step_backwards then step_forwards, restore forward and
\* backward exactly, also across the wrap point.
C4_StepRoundTrip ==
    (/\ <<op2, op>> \in {<<"step_forwards", "step_backwards">>,
                         <<"step_backwards", "step_forwards">>}
     /\ pre2.forward # <<>>)
    => (~aborted /\ forward = pre2.forward /\ backward = pre2.backward)

C4_Witness ==
    /\ op2 = "step_forwards" /\ op = "step_backwards"
    /\ Len(pre2.forward) = 1 /\ Len(pre2.backward) >= 2
    /\ Distinct(Ring(pre2))
    /\ pre.backward = <<>>

\* C5: refocus(p) on a zipper with a focus, some element satisfying p: the
\* focus ends on the first element satisfying p in Original direction from the
\* successor of the starting focus (the starting focus last); the number of
\* steps is the distance to it, between 1 and size.
C5_RefocusFirstMatch ==
    (op = "refocus" /\ pre.forward # <<>> /\ Matching(pre, arg) # {})
    => LET d == FirstForward(pre, arg)
       IN  /\ ~aborted
           /\ count = d
           /\ count >= 1 /\ count <= size(pre)
           /\ focus(Self) = Some(After(pre, d))
           /\ Head(forward) \in arg
           /\ Ring(Self) = Rotate(Ring(pre), d % size(pre))

C5_Witness ==
    /\ op = "refocus"
    /\ size(pre) >= 3 /\ Distinct(Ring(pre))
    /\ pre.backward # <<>>
    /\ Head(pre.forward) \in arg
    /\ Cardinality(Matching(pre, arg)) = 2
    /\ count = 2

\* C6: for any state and any predicate that some element satisfies,
\* refocus(p) and refocus_backwards(p) on two copies of the state end on the
\* same focused element and give equal zippers.
\* Violated: with two matching elements each search stops at the match nearest
\* in its own direction.
C6_RefocusBothWays ==
    (op = "refocus" /\ pre.forward # <<>> /\ Distinct(Ring(pre))
        /\ Matching(pre, arg) # {})
    => /\ focus(Self) = focus(refocus_backwards(pre, arg).z)
       /\ Self = refocus_backwards(pre, arg).z

\* C7 as stated: when no element satisfies p, refocus on a zipper of size
\* n >= 1 takes exactly n forward steps (refocus_backwards n backward steps)
\* and leaves the state reached by n steps.
C7_NoMatchSizeSteps ==
    /\ (op = "refocus" /\ pre.forward # <<>> /\ Matching(pre, arg) = {})
       => (count = size(pre) /\ Self = StepN(pre, Original, size(pre)))
    /\ (op = "refocus_backwards" /\ pre.forward # <<>> /\ Matching(pre, arg) = {})
       => (count = size(pre) /\ Self = StepN(pre, Reverse, size(pre)))

\* C7 amended: when no element satisfies p, refocus on a zipper of size
\* n >= 1 that has a focus takes exactly n + 1 forward steps, and
\* refocus_backwards on any zipper of size n >= 1 exactly n + 1 backward
\* steps, and leaves the state reached by n + 1 steps.
C7_NoMatchSizePlusOneSteps ==
    /\ (op = "refocus" /\ pre.forward # <<>> /\ Matching(pre, arg) = {})
       => /\ ~aborted
          /\ count = size(pre) + 1
          /\ Self = StepN(pre, Original, size(pre) + 1)
          /\ focus(Self) = Some(After(pre, 1))
    /\ (op = "refocus_backwards" /\ size(pre) >= 1 /\ Matching(pre, arg) = {})
       => /\ ~aborted
          /\ count = size(pre) + 1
          /\ Self = StepN(pre, Reverse, size(pre) + 1)
          /\ pre.forward # <<>> => focus(Self) = Some(After(pre, size(pre) - 1))

C7_Witness ==
    /\ op = "refocus"
    /\ size(pre) >= 2 /\ Distinct(Ring(pre))
    /\ pre.backward # <<>>
    /\ arg # {}
    /\ Matching(pre, arg) = {}

\* C8: take_previous_focus on a zipper of size >= 2 with a focus returns the
\* element before the focus in ring order, decreases size by 1 and leaves
\* focus() as it was, with backward non-empty and with backward empty.
\* Violated: with backward empty the call leaves forward empty, so focus()
\* returns None.
C8_TakePreviousKeepsFocus ==
    (op = "take_previous_focus" /\ size(pre) >= 2 /\ pre.forward # <<>>)
    => /\ ~aborted
       /\ ret = Some(After(pre, size(pre) - 1))
       /\ size(Self) = size(pre) - 1
       /\ focus(Self) = focus(pre)

\* C9: take_current_focus on a zipper with a focus returns the focus,
\* decreases size by 1 and makes the former successor the focus, the rest of
\* the ring keeping its order, so that successive calls return what iter()
\* yields; on the empty zipper it returns None; into_iter() yields the
\* sequence of iter() and ends with the zipper empty.
C9_Drain ==
    /\ (op = "take_current_focus" /\ pre.forward # <<>>)
       => /\ ret = focus(pre)
          /\ size(Self) = size(pre) - 1
          /\ Ring(Self) = Tail(Ring(pre))
          /\ size(Self) > 0 => focus(Self) = Some(After(pre, 1))
          /\ collect(Self, iter(Self)) = Tail(collect(pre, iter(pre)))
    /\ (op = "take_current_focus" /\ size(pre) = 0)
       => (ret = None /\ size(Self) = 0)
    /\ (op = "into_iter" /\ pre.forward # <<>>)
       => /\ ret = collect(pre, iter(pre))
          /\ ret = Ring(pre)
          /\ Len(ret) = size(pre)
          /\ size(Self) = 0

C9_Witness ==
    /\ op = "into_iter"
    /\ Len(pre.forward) = 1 /\ Len(pre.backward) >= 2
    /\ Distinct(Ring(pre))
    /\ Len(ret) = 3

\* C10: push_focus(e) increases size by 1, makes e the focus and the former
\* focus ith(1), and iter() after is e followed by iter() before; a
\* take_current_focus right after it returns e and, when the zipper had a
\* focus or was empty, restores the state before the push.
C10_PushFocus ==
    /\ op = "push_focus"
       => /\ size(Self) = size(pre) + 1
          /\ arg = {Head(forward)}
          /\ pre.forward # <<>> => ith(Self, 1).val = focus(pre)
          /\ collect(Self, iter(Self)) = <<Head(forward)>> \o collect(pre, iter(pre))
    /\ (op2 = "push_focus" /\ op = "take_current_focus")
       => /\ arg2 = {ret[1]}
          /\ (pre2.forward # <<>> \/ size(pre2) = 0) => Self = pre2

C10_Witness ==
    /\ op2 = "push_focus" /\ op = "take_current_focus"
    /\ size(pre2) >= 2 /\ pre2.backward # <<>>
    /\ Distinct(Ring(pre))

\* C11: after from_iter(S), S non-empty, and any movement, reset_start leaves
\* forward = S and backward empty; reset_end leaves forward = [S[n-1]] and
\* backward = reverse(S[0..n-1]); step_forwards after reset_end focuses S[0]
\* and step_backwards after reset_end focuses S[(n-2) mod n].
C11_Resets ==
    LET n == Len(orig) IN
    /\ (op = "reset_start" /\ n > 0)
       => (~aborted /\ forward = orig /\ backward = <<>> /\ focus(Self) = Some(orig[1]))
    /\ (op = "reset_end" /\ n > 0)
       => /\ ~aborted
          /\ forward = <<orig[n]>>
          /\ backward = Rev(SubSeq(orig, 1, n - 1))
          /\ focus(Self) = Some(orig[n])
    /\ (op2 = "reset_end" /\ op = "step_forwards" /\ n > 0)
       => focus(Self) = Some(orig[1])
    /\ (op2 = "reset_end" /\ op = "step_backwards" /\ n > 0)
       => focus(Self) = Some(orig[((n - 2) % n) + 1])

C11_Witness ==
    /\ op2 = "reset_end" /\ op = "step_backwards"
    /\ Len(orig) >= 3 /\ Distinct(orig)
    /\ pre2.backward # <<>> /\ Len(pre2.forward) >= 2

\* C12: in a state with a focus reset_end twice gives the same forward and
\* backward as reset_end once, and so does reset_start; on the empty zipper
\* both change nothing.
C12_ResetIdempotent ==
    /\ (op2 = "reset_end" /\ op = "reset_end" /\ pre2.forward # <<>>)
       => (~aborted /\ Self = pre /\ Self = reset_end(pre2))
    /\ (op2 = "reset_start" /\ op = "reset_start" /\ pre2.forward # <<>>)
       => (~aborted /\ Self = pre /\ Self = reset_start(pre2))
    /\ (op \in {"reset_start", "reset_end"} /\ size(pre) = 0)
       => Self = pre

C12_Witness ==
    /\ op2 = "reset_end" /\ op = "reset_end"
    /\ size(pre2) >= 3 /\ Distinct(Ring(pre2))
    /\ pre2.backward # <<>> /\ Len(pre2.forward) >= 2

\* C13: in every reachable state, the empty zipper included, ith(0) returns
\* what focus() returns.
\* Violated: on the empty zipper ith takes a remainder by zero and panics.
C13_IthZeroIsFocus ==
    (op = "ith" /\ arg = {0}) => (~aborted /\ ret = focus(pre))

\* C14: on a zipper of size n >= 1, ith(i) returns an element and
\* ith(i) = ith(i - n) = ith(i + n); with a focus, it is the element i steps
\* after the focus for i >= 0 and |i| steps before it for i < 0.
C14_IthWraps ==
    (op = "ith" /\ size(pre) >= 1)
    => LET i == CHOOSE x \in arg : TRUE
           n == size(pre)
       IN  /\ ~aborted
           /\ ret # None
           /\ ret = ith(pre, i - n).val
           /\ ret = ith(pre, i + n).val
           /\ (pre.forward # <<>> /\ i >= 0) => ret = focus(StepN(pre, Original, i))
           /\ (pre.forward # <<>> /\ i < 0) => ret = focus(StepN(pre, Reverse, -i))

C14_Witness ==
    /\ op = "ith"
    /\ size(pre) >= 3 /\ Distinct(Ring(pre))
    /\ Len(pre.backward) >= 2
    /\ arg = {-4}

\* C15: on the empty zipper ith(i) returns None for every i, without a
\* division by zero.
\* Violated: rem_euclid(0) panics.
C15_IthOnEmpty ==
    (op = "ith" /\ size(pre) = 0) => (~aborted /\ ret = None)

\* C16: on the empty zipper focus(), take_current_focus() and
\* take_previous_focus() return None, the steps, resets and refocus change
\* nothing, and the zipper stays empty.
\* Violated: take_previous_focus unwraps the pop of an empty backward.
C16_EmptyZipper ==
    (/\ size(pre) = 0
     /\ op \in {"focus", "take_current_focus", "take_previous_focus", "step_forwards",
                "step_backwards", "reset_start", "reset_end", "refocus"})
    => (~aborted /\ ret = None /\ size(Self) = 0 /\ Self = pre)

\* C17: reverse_iter() on a zipper of size n with a focus yields n elements,
\* ith(0), ith(-1), ..., ith(-(n-1)): the first element of iter() and then the
\* rest of iter() reversed; forward and backward stay as they are.
C17_ReverseIter ==
    (op = "reverse_iter" /\ pre.forward # <<>>)
    => LET n == size(pre)
           it == collect(pre, iter(pre))
       IN  /\ Len(ret) = n
           /\ \A j \in 0 .. (n - 1) : Some(ret[j + 1]) = focus(StepN(pre, Reverse, j))
           /\ \A j \in 0 .. (n - 1) : Some(ret[j + 1]) = ith(pre, -j).val
           /\ ret = <<Head(it)>> \o Rev(Tail(it))
           /\ Self = pre

C17_Witness ==
    /\ op = "reverse_iter"
    /\ size(pre) >= 3 /\ Distinct(Ring(pre))
    /\ pre.backward # <<>> /\ Len(pre.forward) >= 2

\* C18: refocus and refocus_backwards stop for every zipper and predicate,
\* after at most size + 1 steps; when some element satisfies the predicate
\* they stop after at most size steps with the focus on such an element.
\* Violated: after take_previous_focus has left a zipper without focus (C8),
\* the first step_forwards of refocus panics.
C18_RefocusStops ==
    (op \in {"refocus", "refocus_backwards"})
    => /\ ~aborted
       /\ count <= size(pre) + 1
       /\ Matching(pre, arg) # {}
          => (count <= size(pre) /\ focus(Self) # None /\ Head(forward) \in arg)

\* C19: step never aborts: in every state reachable by the public
\* operations, a step (alone, in reset_end or in refocus) pops a non-empty
\* container.
\* Violated: step_forwards on the zipper without focus left by
\* take_previous_focus (C8) pops the empty forward.
C19_StepNeverAborts ==
    (op \in {"step_forwards", "step_backwards", "reset_end", "refocus", "refocus_backwards"})
    => ~aborted

\* C20: after from_iter(S), S non-empty, and any movement, forward = S[k..n]
\* and backward = reverse(S[0..k]) with 0 <= k < n; the split depends on the
\* position alone, whatever operations led to it.
C20_Canonical ==
    LET n == Len(orig)
        pos == Len(backward)
    IN  n > 0 =>
        /\ ~aborted
        /\ pos < n
        /\ Self = Canonical(orig, pos)
        /\ \A j \in 0 .. (n - 1) : (Self = Canonical(orig, j)) <=> (j = pos)
        /\ op = "step_forwards" => pos = (Len(pre.backward) + 1) % n
        /\ op = "step_backwards" => pos = (Len(pre.backward) - 1) % n
        /\ op = "refocus" => pos = (Len(pre.backward) + count) % n
        /\ op = "refocus_backwards" => pos = (Len(pre.backward) - count) % n
        /\ op = "reset_start" => pos = 0
        /\ op = "reset_end" => pos = n - 1

C20_Witness ==
    /\ op = "refocus_backwards"
    /\ Len(orig) >= 3 /\ Distinct(orig)
    /\ pre.backward = <<>>
    /\ count = Len(orig) - 1
    /\ Self = step_forwards(pre)

====
